---- MODULE Spec2Model ----
(***************************************************************************)
(* The symptom-selection and prediction-request state machine of the       *)
(* farm-disease-prediction front end.                                      *)
(*                                                                         *)
(* Two root components are modelled, one per behaviour (variable mounted): *)
(*   "App"             frontend/src/App.jsx with services/api              *)
(*   "SymptomSelector" frontend/src/components/SymptomSelector.jsx, driven *)
(*                     by a parent that owns selected and passes disabled  *)
(* React runs one event handler at a time and re-renders before the next   *)
(* event, so every handler is one atomic action; the continuation of       *)
(* onPredict after its await is a separate action.                         *)
(***************************************************************************)
EXTENDS Integers, Sequences, FiniteSets, TLC

VARIABLES
    mounted,      \* which root component this behaviour runs
    served,       \* number of symptoms the backend's catalog holds
    catalogReq,   \* GET /symptoms: "pending" | "done" | "none"
    animal,       \* App: useState("Cow")
    allSymptoms,  \* App: useState([]) / SymptomSelector prop
    selected,     \* App: useState([]) / SymptomSelector prop (parent state)
    query,        \* useState("")
    result,       \* App: useState(null)
    error,        \* App: useState("")
    loading,      \* App: useState(false)
    inflight,     \* POST /predict calls awaiting their response
    sent,         \* number of POST /predict calls issued so far
    disabled,     \* SymptomSelector prop
    last          \* history: the handler that ran last, the symptom it was
                  \* given, and for onPredict whether a result was displayed

vars == <<mounted, served, catalogReq, animal, allSymptoms, selected, query,
          result, error, loading, inflight, sent, disabled, last>>

(***************************************************************************)
(* Bounds of the model.                                                    *)
(***************************************************************************)
NumSymptoms == 3
MaxRequests == 2

(***************************************************************************)
(* Program constants.                                                      *)
(***************************************************************************)
MinSymptoms == 3
MaxSymptoms == 8
TopK == 3

\* the <option> values of the animal <select>, and those the user picks
AnimalOptions == {"Cow", "Buffalo", "Goat", "Sheep"}
Animals == {"Cow", "Buffalo"}

MaxMsg == "You can select maximum 8 symptoms."
MinMsg == "Select at least 3 symptoms."
LoadMsg == "Failed to load symptoms. Please start backend (FastAPI)."
FailMsg == "Prediction failed. Check backend is running on port 8000."

Null == [kind |-> "null"]

(***************************************************************************)
(* Text.  A string is a sequence of one-character strings.                 *)
(***************************************************************************)
Upper == <<"A", "B", "C", "S", "T">>
Lower == <<"a", "b", "c", "s", "t">>

ToLowerChar(c) ==
    IF \E i \in 1..Len(Upper) : Upper[i] = c
    THEN Lower[CHOOSE i \in 1..Len(Upper) : Upper[i] = c]
    ELSE c

ToLowerCase(s) == [i \in 1..Len(s) |-> ToLowerChar(s[i])]

RECURSIVE TrimStart(_)
TrimStart(s) ==
    IF s # <<>> /\ Head(s) = " " THEN TrimStart(Tail(s)) ELSE s

RECURSIVE TrimEnd(_)
TrimEnd(s) ==
    IF s # <<>> /\ s[Len(s)] = " " THEN TrimEnd(SubSeq(s, 1, Len(s) - 1)) ELSE s

Trim(s) == TrimEnd(TrimStart(s))

\* String.prototype.includes
StrIncludes(s, q) ==
    \E i \in 0..(Len(s) - Len(q)) : SubSeq(s, i + 1, i + Len(q)) = q

(***************************************************************************)
(* The backend's catalog.  A symptom object {en, te, display} is held as   *)
(* its key k: its fields are EnText(k), TeText(k) and DisplayText(k), and  *)
(* selected holds the identifiers (en) by the same keys.                   *)
(***************************************************************************)
Digit(k) == <<"1", "2", "3", "4", "5", "6", "7", "8", "9">>[k]
\* the key of a symptom whose identifier is written with an underscore, which
\* its display text does not have
Snake == 10

EnText(k) == IF k = Snake THEN <<"a", "_", "b">> ELSE <<"s", Digit(k)>>
TeText(k) == IF k = Snake THEN <<"c">> ELSE <<"t", Digit(k)>>
DisplayText(k) ==
    (IF k = Snake THEN <<"A", " ", "B">> ELSE <<"S", Digit(k)>>)
       \o <<" ", "/", " ">> \o TeText(k)

Catalog(n) == [k \in 1..n |-> k]

Queries == {<<>>, <<"s", "1">>}

\* the catalogs and the search texts the filters are tried on
FilterKeys == {1, 2, Snake}

FilterCatalogs ==
    {c \in UNION {[1..n -> FilterKeys] : n \in 0..Cardinality(FilterKeys)} :
        \A i, j \in 1..Len(c) : c[i] = c[j] => i = j}

FilterQueries ==
    {<<>>, <<" ">>, <<"s", "1">>, <<" ", "S", "1", " ">>, <<"t">>, <<"/">>,
     <<"a", "_", "b">>, <<"A", " ", "b">>, <<"_">>, <<"x">>}

(***************************************************************************)
(* Array helpers.                                                          *)
(***************************************************************************)
Includes(arr, x) == \E i \in 1..Len(arr) : arr[i] = x
Without(arr, x) == SelectSeq(arr, LAMBDA y : y # x)
Elems(arr) == {arr[i] : i \in 1..Len(arr)}
NoDuplicates(arr) == \A i, j \in 1..Len(arr) : arr[i] = arr[j] => i = j

\* the history record of a handler run
Ran(op, arg) ==
    [op |-> op, arg |-> arg, hadResult |-> op = "onPredict" /\ result # Null]

(***************************************************************************)
(* services/api                                                            *)
(***************************************************************************)
\* the bodies GET /symptoms can answer with a 2xx status
SymptomsBodies == {[symptoms |-> Catalog(served)], [detail |-> "none"]}

\* getSymptoms: r.data?.symptoms ?? []
GetSymptomsData(body) ==
    IF "symptoms" \in DOMAIN body THEN body.symptoms ELSE <<>>

\* a payload that lists the symptoms in catalog order
Payload_Sorted(a, sel) ==
    [animal |-> a, symptoms |-> SortSeq(sel, LAMBDA x, y : x < y),
     top_k |-> TopK]

\* the payload onPredict hands to predict()
Payload(a, sel) == [animal |-> a, symptoms |-> sel, top_k |-> TopK]

\* a well-formed 2xx body of POST /predict: the backend echoes the request
ResultFor(r) ==
    [kind |-> "result", req |-> r.id, animal |-> r.payload.animal,
     symptoms |-> r.payload.symptoms]

\* the bodies POST /predict can answer with a 2xx status: the well-formed
\* one, an object that lacks the fields of a prediction, and an empty body
\* (r.data is null)
PredictBodies(r) ==
    {ResultFor(r), [kind |-> "malformed", req |-> r.id], Null}

(***************************************************************************)
(* App.jsx                                                                 *)
(***************************************************************************)
\* the output card reads result.animal.display, result.risk.overall.display,
\* result.symptoms.map and result.predictions.map of any truthy result
RenderThrows == result # Null /\ result.kind # "result"

\* the tree is on screen: a render that throws unmounts it (no error boundary)
AppRendered == mounted = "App" /\ ~RenderThrows

filteredSymptoms(q0, all) ==
    LET q == ToLowerCase(Trim(q0))
    IN  IF q = <<>>
        THEN all
        ELSE SelectSeq(all, LAMBDA s : StrIncludes(ToLowerCase(DisplayText(s)), q))

\* mutant: the cap compares with > instead of >=
ToggleSelected_OffByOne(prev, en) ==
    IF Includes(prev, en) THEN Without(prev, en)
    ELSE IF Len(prev) > MaxSymptoms THEN prev
    ELSE Append(prev, en)

\* mutant: the membership test is missing
ToggleSelected_NoCheck(prev, en) ==
    IF Len(prev) >= MaxSymptoms THEN prev ELSE Append(prev, en)

\* the updater toggle passes to setSelected
\* a removal that drops the oldest selection instead of the clicked one
ToggleSelected_RemoveFirst(prev, en) ==
    IF Includes(prev, en) THEN Tail(prev)
    ELSE IF Len(prev) >= MaxSymptoms THEN prev
    ELSE Append(prev, en)

ToggleSelected(prev, en) ==
    IF Includes(prev, en) THEN Without(prev, en)
    ELSE IF Len(prev) >= MaxSymptoms THEN prev
    ELSE Append(prev, en)

\* mutant: the rejected addition raises nothing
ToggleError_Silent(prev, en, err) == err

\* the setError call inside that updater
ToggleError(prev, en, err) ==
    IF ~Includes(prev, en) /\ Len(prev) >= MaxSymptoms THEN MaxMsg ELSE err

\* mutant: the pill removes the last symptom instead of its own
PillSelected_DropLast(prev, en) == SubSeq(prev, 1, Len(prev) - 1)

\* Pill onRemove
PillSelected(prev, en) == Without(prev, en)

\* mutant: the Predict button is never disabled
PredictDisabled_Never == FALSE

\* <button ... onClick={onPredict} disabled={loading}>
PredictDisabled == loading

\* mutant: the validation accepts one symptom fewer
TooFew_OffByOne(sel) == Len(sel) < MinSymptoms - 1

\* onPredict's validation
\* a handler that does not validate
TooFew_Never(sel) == FALSE

TooFew(sel) == Len(sel) < MinSymptoms

LoadResolve ==
    /\ mounted = "App"
    /\ catalogReq = "pending"
    /\ \E body \in SymptomsBodies : allSymptoms' = GetSymptomsData(body)
    /\ catalogReq' = "done"
    /\ last' = Ran("LoadResolve", 0)
    /\ UNCHANGED <<mounted, served, animal, selected, query, result, error,
                   loading, inflight, sent, disabled>>

\* a catch block that reports the failure and asks for the catalog again
LoadReject_Retry ==
    /\ mounted = "App"
    /\ catalogReq = "pending"
    /\ error' = LoadMsg
    /\ catalogReq' = "pending"
    /\ last' = Ran("LoadReject", 0)
    /\ UNCHANGED <<mounted, served, animal, allSymptoms, selected, query,
                   result, loading, inflight, sent, disabled>>

\* useEffect: the catch of getSymptoms()
LoadReject ==
    /\ mounted = "App"
    /\ catalogReq = "pending"
    /\ error' = LoadMsg
    /\ catalogReq' = "done"
    /\ last' = Ran("LoadReject", 0)
    /\ UNCHANGED <<mounted, served, animal, allSymptoms, selected, query,
                   result, loading, inflight, sent, disabled>>

SetAnimal(a) ==
    /\ AppRendered
    /\ animal' = a
    /\ last' = Ran("SetAnimal", 0)
    /\ UNCHANGED <<mounted, served, catalogReq, allSymptoms, selected, query,
                   result, error, loading, inflight, sent, disabled>>

SetQuery(q) ==
    /\ AppRendered
    /\ query' = q
    /\ last' = Ran("SetQuery", 0)
    /\ UNCHANGED <<mounted, served, catalogReq, animal, allSymptoms, selected,
                   result, error, loading, inflight, sent, disabled>>

\* a toggle that changes the array in place, the array a request in flight
\* was handed
Toggle_InPlace(en) ==
    /\ AppRendered
    /\ Includes(filteredSymptoms(query, allSymptoms), en)
    /\ selected' = ToggleSelected(selected, en)
    /\ error' = ToggleError(selected, en, error)
    /\ inflight' = {[r EXCEPT !.payload.symptoms = selected'] : r \in inflight}
    /\ last' = Ran("toggle", en)
    /\ UNCHANGED <<mounted, served, catalogReq, animal, allSymptoms, query,
                   result, loading, sent, disabled>>

\* a click on a button of the symptom grid
Toggle(en) ==
    /\ AppRendered
    /\ Includes(filteredSymptoms(query, allSymptoms), en)
    /\ selected' = ToggleSelected(selected, en)
    /\ error' = ToggleError(selected, en, error)
    /\ last' = Ran("toggle", en)
    /\ UNCHANGED <<mounted, served, catalogReq, animal, allSymptoms, query,
                   result, loading, inflight, sent, disabled>>

\* selected.map((en, idx) => <Pill ... onRemove=... />)
PillShown(en) == Includes(selected, en)

\* a click on the x of a pill
PillRemove(en) ==
    /\ AppRendered
    /\ PillShown(en)
    /\ selected' = PillSelected(selected, en)
    /\ last' = Ran("onRemove", en)
    /\ UNCHANGED <<mounted, served, catalogReq, animal, allSymptoms, query,
                   result, error, loading, inflight, sent, disabled>>

\* mutant: clearAll also switches loading off
clearAll_StopLoading ==
    /\ AppRendered
    /\ selected' = <<>>
    /\ query' = <<>>
    /\ result' = Null
    /\ error' = ""
    /\ loading' = FALSE
    /\ last' = Ran("clearAll", 0)
    /\ UNCHANGED <<mounted, served, catalogReq, animal, allSymptoms,
                   inflight, sent, disabled>>

\* mutant: clearAll forgets the error
clearAll_KeepError ==
    /\ AppRendered
    /\ selected' = <<>>
    /\ query' = <<>>
    /\ result' = Null
    /\ last' = Ran("clearAll", 0)
    /\ UNCHANGED <<mounted, served, catalogReq, animal, allSymptoms, error,
                   loading, inflight, sent, disabled>>

clearAll ==
    /\ AppRendered
    /\ selected' = <<>>
    /\ query' = <<>>
    /\ result' = Null
    /\ error' = ""
    /\ last' = Ran("clearAll", 0)
    /\ UNCHANGED <<mounted, served, catalogReq, animal, allSymptoms, loading,
                   inflight, sent, disabled>>

\* what onPredict does once its validation has passed
Submit(err, res) ==
    /\ sent < MaxRequests
    /\ error' = err
    /\ result' = res
    /\ loading' = TRUE
    /\ sent' = sent + 1
    /\ inflight' = inflight \cup
           {[id |-> sent + 1, payload |-> Payload(animal, selected)]}

\* mutant: onPredict does not clear the error
onPredict_KeepError ==
    /\ AppRendered
    /\ ~PredictDisabled
    /\ IF TooFew(selected)
       THEN /\ error' = MinMsg
            /\ result' = Null
            /\ UNCHANGED <<loading, inflight, sent>>
       ELSE Submit(error, Null)
    /\ last' = Ran("onPredict", 0)
    /\ UNCHANGED <<mounted, served, catalogReq, animal, allSymptoms, selected,
                   query, disabled>>

\* mutant: onPredict does not clear the result
onPredict_KeepResult ==
    /\ AppRendered
    /\ ~PredictDisabled
    /\ IF TooFew(selected)
       THEN /\ error' = MinMsg
            /\ result' = result
            /\ UNCHANGED <<loading, inflight, sent>>
       ELSE Submit("", result)
    /\ last' = Ran("onPredict", 0)
    /\ UNCHANGED <<mounted, served, catalogReq, animal, allSymptoms, selected,
                   query, disabled>>

\* mutant: onPredict validates before it clears anything
onPredict_ValidateFirst ==
    /\ AppRendered
    /\ ~PredictDisabled
    /\ IF TooFew(selected)
       THEN /\ error' = MinMsg
            /\ UNCHANGED <<result, loading, inflight, sent>>
       ELSE Submit("", Null)
    /\ last' = Ran("onPredict", 0)
    /\ UNCHANGED <<mounted, served, catalogReq, animal, allSymptoms, selected,
                   query, disabled>>

\* a click on Predict: onPredict up to its await
onPredict ==
    /\ AppRendered
    /\ ~PredictDisabled
    /\ IF TooFew(selected)
       THEN /\ error' = MinMsg
            /\ result' = Null
            /\ UNCHANGED <<loading, inflight, sent>>
       ELSE Submit("", Null)
    /\ last' = Ran("onPredict", 0)
    /\ UNCHANGED <<mounted, served, catalogReq, animal, allSymptoms, selected,
                   query, disabled>>

\* onPredict after its await, the call having resolved
PredictResolve(r) ==
    /\ mounted = "App"
    /\ r \in inflight
    /\ inflight' = inflight \ {r}
    /\ \E data \in PredictBodies(r) : result' = data
    /\ loading' = FALSE
    /\ last' = Ran("PredictResolve", 0)
    /\ UNCHANGED <<mounted, served, catalogReq, animal, allSymptoms, selected,
                   query, error, sent, disabled>>

\* a catch block that reports nothing
PredictReject_Silent(r) ==
    /\ mounted = "App"
    /\ r \in inflight
    /\ inflight' = inflight \ {r}
    /\ loading' = FALSE
    /\ last' = Ran("PredictReject", 0)
    /\ UNCHANGED <<mounted, served, catalogReq, animal, allSymptoms, selected,
                   query, result, error, sent, disabled>>

\* onPredict after its await, the call having rejected
PredictReject(r) ==
    /\ mounted = "App"
    /\ r \in inflight
    /\ inflight' = inflight \ {r}
    /\ error' = FailMsg
    /\ loading' = FALSE
    /\ last' = Ran("PredictReject", 0)
    /\ UNCHANGED <<mounted, served, catalogReq, animal, allSymptoms, selected,
                   query, result, sent, disabled>>

(***************************************************************************)
(* SymptomSelector.jsx                                                     *)
(***************************************************************************)
filtered(q0, all) ==
    LET q == ToLowerCase(Trim(q0))
    IN  IF q = <<>>
        THEN all
        ELSE SelectSeq(all, LAMBDA s :
                 \/ StrIncludes(ToLowerCase(DisplayText(s)), q)
                 \/ StrIncludes(ToLowerCase(EnText(s)), q)
                 \/ StrIncludes(ToLowerCase(TeText(s)), q))

SelectorToggle(sel, en, dis) ==
    IF dis THEN sel
    ELSE IF Includes(sel, en) THEN Without(sel, en)
    ELSE IF Len(sel) >= MaxSymptoms THEN sel
    ELSE Append(sel, en)

removeChip(sel, en, dis) == IF dis THEN sel ELSE Without(sel, en)

\* const blocked = !checked && selected.length >= max
blocked(sel, en) == ~Includes(sel, en) /\ Len(sel) >= MaxSymptoms

\* <Checkbox ... disabled={disabled || blocked} />
CheckboxDisabled(sel, en, dis) == dis \/ blocked(sel, en)

\* <Chip ... onDelete={disabled?undefined:()=>removeChip(s.en)} />
ChipDeletable(dis) == ~dis

CheckboxChange(en) ==
    /\ mounted = "SymptomSelector"
    /\ Includes(filtered(query, allSymptoms), en)
    /\ ~CheckboxDisabled(selected, en, disabled)
    /\ selected' = SelectorToggle(selected, en, disabled)
    /\ last' = Ran("toggle", en)
    /\ UNCHANGED <<mounted, served, catalogReq, animal, allSymptoms, query,
                   result, error, loading, inflight, sent, disabled>>

\* selectedDisplay.map(s => <Chip ... />)
ChipShown(en) == Includes(selected, en)

ChipDelete(en) ==
    /\ mounted = "SymptomSelector"
    /\ ChipShown(en)
    /\ ChipDeletable(disabled)
    /\ selected' = removeChip(selected, en, disabled)
    /\ last' = Ran("removeChip", en)
    /\ UNCHANGED <<mounted, served, catalogReq, animal, allSymptoms, query,
                   result, error, loading, inflight, sent, disabled>>

SelectorSetQuery(q) ==
    /\ mounted = "SymptomSelector"
    /\ ~disabled
    /\ query' = q
    /\ last' = Ran("SetQuery", 0)
    /\ UNCHANGED <<mounted, served, catalogReq, animal, allSymptoms, selected,
                   result, error, loading, inflight, sent, disabled>>

\* the parent re-renders the component with another disabled
SetDisabled(d) ==
    /\ mounted = "SymptomSelector"
    /\ disabled' = d
    /\ last' = Ran("SetDisabled", 0)
    /\ UNCHANGED <<mounted, served, catalogReq, animal, allSymptoms, selected,
                   query, result, error, loading, inflight, sent>>

(***************************************************************************)
(* Specifications.                                                         *)
(***************************************************************************)
InitApp ==
    /\ mounted = "App"
    /\ catalogReq = "pending"
    /\ allSymptoms = <<>>

InitSelector ==
    /\ mounted = "SymptomSelector"
    /\ catalogReq = "none"
    /\ allSymptoms = Catalog(served)

InitState ==
    /\ InitApp \/ InitSelector
    /\ animal = "Cow"
    /\ selected = <<>>
    /\ query = <<>>
    /\ result = Null
    /\ error = ""
    /\ loading = FALSE
    /\ inflight = {}
    /\ sent = 0
    /\ disabled = FALSE
    /\ last = [op |-> "mount", arg |-> 0, hadResult |-> FALSE]

Init == served = NumSymptoms /\ InitState

Next ==
    \/ LoadResolve
    \/ LoadReject
    \/ \E a \in Animals : SetAnimal(a)
    \/ \E q \in Queries : SetQuery(q)
    \/ \E en \in 1..served : Toggle(en)
    \/ \E en \in 1..served : PillRemove(en)
    \/ clearAll
    \/ onPredict
    \/ \E r \in inflight : PredictResolve(r)
    \/ \E r \in inflight : PredictReject(r)
    \/ \E en \in 1..served : CheckboxChange(en)
    \/ \E en \in 1..served : ChipDelete(en)
    \/ \E q \in Queries : SelectorSetQuery(q)
    \/ \E d \in BOOLEAN : SetDisabled(d)

Spec == Init /\ [][Next]_vars

\* The same with the transport's guarantee: the axios instance is created
\* with timeout 20000, so every call to predict() resolves or rejects, and the
\* event loop then runs the rest of onPredict.
Settle == \E r \in inflight : PredictResolve(r) \/ PredictReject(r)

SpecLive == Spec /\ WF_vars(Settle)

\* The boundary cases: a catalog one symptom larger than the maximum, and a
\* user who works down the grid (an unselected symptom is clicked only when
\* it lies below every selected one; any selected symptom may be clicked or
\* removed at any time) and clicks Predict only with too few symptoms or
\* with the maximum selected.
InitMax == served = MaxSymptoms + 1 /\ InitState

TopDown(en) ==
    Includes(selected, en) \/ \A i \in 1..Len(selected) : selected[i] < en

AtBoundary == Len(selected) < MinSymptoms \/ Len(selected) = MaxSymptoms

NextMax ==
    \/ LoadResolve
    \/ \E en \in 1..served : TopDown(en) /\ Toggle(en)
    \/ \E en \in 1..served : PillRemove(en)
    \/ clearAll
    \/ (AtBoundary /\ onPredict)
    \/ \E r \in inflight : PredictResolve(r)
    \/ \E r \in inflight : PredictReject(r)
    \/ \E en \in 1..served : TopDown(en) /\ CheckboxChange(en)
    \/ \E en \in 1..served : ChipDelete(en)
    \/ \E d \in BOOLEAN : SetDisabled(d)

SpecMax == InitMax /\ [][NextMax]_vars

\* The filters as pure functions: any catalog of FilterCatalogs loaded, and a
\* user who only types in the search box.
InitFilter ==
    /\ mounted \in {"App", "SymptomSelector"}
    /\ catalogReq = IF mounted = "App" THEN "done" ELSE "none"
    /\ allSymptoms \in FilterCatalogs
    /\ served = Len(allSymptoms)
    /\ animal = "Cow"
    /\ selected = <<>>
    /\ query = <<>>
    /\ result = Null
    /\ error = ""
    /\ loading = FALSE
    /\ inflight = {}
    /\ sent = 0
    /\ disabled = FALSE
    /\ last = [op |-> "mount", arg |-> 0, hadResult |-> FALSE]

NextFilter ==
    \/ \E q \in FilterQueries : SetQuery(q)
    \/ \E q \in FilterQueries : SelectorSetQuery(q)

SpecFilter == InitFilter /\ [][NextFilter]_vars

TypeOK ==
    /\ mounted \in {"App", "SymptomSelector"}
    /\ animal \in Animals
    /\ loading \in BOOLEAN
    /\ disabled \in BOOLEAN
    /\ sent \in 0..MaxRequests
    /\ error \in {"", MaxMsg, MinMsg, LoadMsg, FailMsg}

(***************************************************************************)
(* Properties.                                                             *)
(***************************************************************************)

\* C1: at most one prediction request is in flight at any time, and while
\* loading is set no further POST /predict is issued, whatever the user does.
C1_SingleFlight ==
    /\ Cardinality(inflight) <= 1
    /\ [][/\ Cardinality(inflight') <= 1
          /\ loading => sent' = sent]_vars

\* a request is in flight and a further submit would pass the validation
C1_Witness ==
    /\ loading
    /\ Cardinality(inflight) = 1
    /\ ~TooFew(selected)
    /\ sent < MaxRequests

\* C2 as stated: of a non-empty error, a non-null result and loading, at most
\* one is present in any reachable state.
C2_ExactlyOneStatus ==
    Cardinality({f \in {"error", "result", "loading"} :
                    \/ f = "error" /\ error # ""
                    \/ f = "result" /\ result # Null
                    \/ f = "loading" /\ loading}) <= 1

\* C2 as amended: a result and loading are never present together, and an
\* error present together with a result or with loading is the
\* maximum-selection notice raised by toggle.
C2_Amended ==
    /\ ~(loading /\ result # Null)
    /\ (error # "" /\ (loading \/ result # Null)) => error = MaxMsg

\* the maximum-selection notice is displayed next to a result
C2_Witness == error = MaxMsg /\ result # Null

\* C3: a displayed result answers the most recent submission, no request is
\* in flight beside it, and every request in flight is the most recent
\* submission.
C3_ResultIsLatest ==
    /\ result # Null => (result.req = sent /\ inflight = {})
    /\ \A r \in inflight : r.id = sent

\* the answer to a second submission is displayed
C3_Witness == result # Null /\ result.req = 2 /\ last.op = "PredictResolve"

\* C4 as stated: a submit with fewer than MinSymptoms symptoms leaves the
\* result and loading as they were.
C4_StatusUnchanged ==
    [][(onPredict /\ Len(selected) < MinSymptoms)
          => (result' = result /\ loading' = loading)]_vars

\* C4 as amended: a submit with fewer than MinSymptoms symptoms leaves
\* loading, the Selection, the animal and the query as they were, clears any
\* displayed result and sets the error to the validation message.
C4_Amended ==
    [][(onPredict /\ Len(selected) < MinSymptoms)
          => /\ result' = Null
             /\ error' = MinMsg
             /\ UNCHANGED <<loading, selected, animal, query>>]_vars

\* a submit with too few symptoms ran while a result was displayed
C4_Witness ==
    /\ last.op = "onPredict"
    /\ last.hadResult
    /\ error = MinMsg
    /\ result = Null

\* C5: a submit with fewer than MinSymptoms symptoms issues no POST /predict
\* and sets the error to the validation message.
C5_NoCallWhenTooFew ==
    [][(onPredict /\ Len(selected) < MinSymptoms)
          => /\ sent' = sent
             /\ inflight' = inflight
             /\ ~loading'
             /\ error' = MinMsg]_vars

\* a submit with one or two symptoms was refused
C5_Witness ==
    /\ last.op = "onPredict"
    /\ Len(selected) \in 1..(MinSymptoms - 1)
    /\ error = MinMsg
    /\ inflight = {}

\* C6 as stated: after clear() the Selection and the query are empty, there
\* is no result and no error, and loading is not set.
C6_ClearGoesIdle ==
    last.op = "clearAll"
        => /\ selected = <<>>
           /\ query = <<>>
           /\ result = Null
           /\ error = ""
           /\ ~loading

\* C6 as amended: clear() empties the Selection and the query, removes the
\* result and the error, issues and cancels no request, and leaves loading
\* as it was.
C6_Amended ==
    [][clearAll
          => /\ selected' = <<>>
             /\ query' = <<>>
             /\ result' = Null
             /\ error' = ""
             /\ UNCHANGED <<loading, inflight, sent>>]_vars

\* clear() ran while a request was in flight
C6_Witness == last.op = "clearAll" /\ loading /\ inflight # {}

\* C7: the Selection never holds more than MaxSymptoms identifiers.
C7_SizeInBounds == Len(selected) \in 0..MaxSymptoms

\* the last toggle added the symptom that filled the Selection
C7_Witness ==
    /\ last.op = "toggle"
    /\ Len(selected) = MaxSymptoms
    /\ Includes(selected, last.arg)

\* C8: the Selection never holds the same identifier twice.
C8_NoDuplicates == NoDuplicates(selected)

\* a symptom was added above one that lies below it in the grid
C8_Witness ==
    /\ last.op = "toggle"
    /\ Len(selected) >= MinSymptoms
    /\ selected[Len(selected)] = last.arg
    /\ \E i \in 1..(Len(selected) - 1) : selected[i] > last.arg

\* C9: in App a toggle of an unselected identifier with MaxSymptoms selected
\* leaves the Selection as it was and sets the error to the maximum notice;
\* in SymptomSelector every unselected symptom is then blocked, its checkbox
\* disabled and its toggle without effect.
SelectorBlocksAtMax ==
    (mounted = "SymptomSelector" /\ Len(selected) = MaxSymptoms)
        => \A en \in Elems(allSymptoms) \ Elems(selected) :
               /\ blocked(selected, en)
               /\ CheckboxDisabled(selected, en, disabled)
               /\ SelectorToggle(selected, en, disabled) = selected

C9_RejectAtMax ==
    /\ SelectorBlocksAtMax
    /\ [][/\ (mounted = "App" /\ Len(selected) = MaxSymptoms)
                => \A en \in (1..served) \ Elems(selected) :
                       Toggle(en) => (selected' = selected /\ error' = MaxMsg)
          /\ SelectorBlocksAtMax']_vars

\* App refused a ninth symptom
C9_Witness ==
    /\ mounted = "App"
    /\ last.op = "toggle"
    /\ Len(selected) = MaxSymptoms
    /\ ~Includes(selected, last.arg)
    /\ error = MaxMsg

\* the identifier en, and nothing else, has left the Selection
RemovedExactly(en) ==
    \E i \in 1..Len(selected) :
        /\ selected[i] = en
        /\ selected' = SubSeq(selected, 1, i - 1)
                           \o SubSeq(selected, i + 1, Len(selected))

RemoveOffered(en) ==
    \/ mounted = "App" /\ PillShown(en)
    \/ mounted = "SymptomSelector" /\ ChipShown(en) /\ ChipDeletable(disabled)

RemovalPermittedUnlessDisabled ==
    \A en \in Elems(selected) :
        (mounted = "App" \/ ~disabled) => RemoveOffered(en)

C11_ValidSubmit ==
    [][/\ (last'.op = "onPredict" /\ Len(selected) >= MinSymptoms) =>
            /\ loading'
            /\ sent' = sent + 1
            /\ inflight' =
                 {[id |-> sent',
                   payload |-> [animal |-> animal, symptoms |-> selected,
                                top_k |-> 3]]}
       /\ last'.op = "PredictResolve" =>
            /\ sent' = sent /\ inflight' = {} /\ ~loading'
            /\ result' # Null /\ result'.kind = "result" =>
                  \E r \in inflight :
                     /\ result'.req = r.id
                     /\ result'.animal = r.payload.animal
                     /\ result'.symptoms = r.payload.symptoms
       /\ last'.op = "PredictReject" =>
            sent' = sent /\ inflight' = {} /\ ~loading']_vars

C11_Witness ==
    \E r \in inflight :
       /\ r.payload = [animal |-> "Buffalo", symptoms |-> <<3, 1, 2>>,
                       top_k |-> 3]
       /\ loading

\* C12: when the predict call fails (axios rejects on a network error, on the
\* 20 s timeout and on a non-2xx status), the handler leaves the error set to
\* the prediction-failed message, which is neither of the two validation
\* messages, with no result displayed and loading ended.
C12_PredictFailed ==
    /\ FailMsg \notin {MinMsg, MaxMsg}
    /\ last.op = "PredictReject" =>
          error = FailMsg /\ result = Null /\ ~loading

C12_Witness == last.op = "PredictReject" /\ sent = MaxRequests

\* C13: a 2xx response to POST /predict either carries a well-formed
\* prediction, which is displayed, or is treated as a failed prediction: the
\* prediction-failed error is set and no result is displayed.
C13_MalformedIsFailure ==
    last.op = "PredictResolve" =>
       \/ result # Null /\ result.kind = "result"
       \/ error = FailMsg /\ result = Null

Shown ==
    IF mounted = "App" THEN filteredSymptoms(query, allSymptoms)
    ELSE filtered(query, allSymptoms)

\* C15: for every catalog and every search text that is not blank, the list
\* shown is exactly the symptoms whose identifier, Telugu label or display
\* text contains the text (trimmed, letter case ignored), in catalog order.
C15_FilterExact ==
    LET q == ToLowerCase(Trim(query))
    IN  q # <<>> =>
          Shown = SelectSeq(allSymptoms, LAMBDA s :
                     \/ StrIncludes(ToLowerCase(EnText(s)), q)
                     \/ StrIncludes(ToLowerCase(TeText(s)), q)
                     \/ StrIncludes(ToLowerCase(DisplayText(s)), q))

\* what the two components do: SymptomSelector searches the three fields, App
\* the display text alone
FilterAsCoded ==
    LET q == ToLowerCase(Trim(query))
    IN  /\ q = <<>> => Shown = allSymptoms
        /\ (q # <<>> /\ mounted = "SymptomSelector") => C15_FilterExact
        /\ (q # <<>> /\ mounted = "App") =>
              Shown = SelectSeq(allSymptoms, LAMBDA s :
                         StrIncludes(ToLowerCase(DisplayText(s)), q))

\* C16: when GET /symptoms fails the catalog stays empty and the failure is
\* shown as the error; the one request issued at mount is the only one: once
\* it is answered no request is pending again and the catalog never changes.
C16_LoadFailure ==
    [][/\ last'.op = "LoadReject" =>
            catalogReq' = "done" /\ allSymptoms' = <<>> /\ error' = LoadMsg
       /\ catalogReq # "pending" =>
            catalogReq' = catalogReq /\ allSymptoms' = allSymptoms]_vars

C16_Witness ==
    last.op = "LoadReject" /\ allSymptoms = <<>> /\ error = LoadMsg

\* C17: from every reachable selection and for every symptom of the catalog,
\* toggling the symptom twice in a row leaves the same set selected: a
\* removal followed by the addition, an addition followed by the removal,
\* and at the maximum two rejected additions.
C17_ToggleTwice ==
    \A en \in 1..served :
       IF mounted = "App"
       THEN Elems(ToggleSelected(ToggleSelected(selected, en), en))
               = Elems(selected)
       ELSE Elems(SelectorToggle(SelectorToggle(selected, en, disabled),
                                 en, disabled))
               = Elems(selected)

\* a toggle has just removed a symptom from a full selection: the second
\* toggle adds it again, at the end
C17_Witness ==
    /\ mounted = "App"
    /\ last.op = "toggle"
    /\ Len(selected) = MaxSymptoms - 1
    /\ ~Includes(selected, last.arg)
    /\ ToggleSelected(selected, last.arg) = Append(selected, last.arg)

\* C18: every submit that sets loading is followed by a state in which
\* loading is off and the Predict button is on screen and enabled, and the
\* session never ends up for good with its controls (grid, Predict, Clear)
\* gone.
C18_NoStuckLoading ==
    /\ loading ~> (~loading /\ ~PredictDisabled /\ AppRendered)
    /\ [](mounted = "App" => <>AppRendered)

\* the part of it the code keeps: loading always ends
LoadingEnds == loading ~> ~loading

\* C19: a response to a request issued before clearAll, handled after it,
\* does not change what is displayed: the result stays absent and no
\* prediction error appears (stated for the response handled right after
\* the clear, before any other handler runs).
C19_ClearDiscardsResponse ==
    [][(last.op = "clearAll" /\ last'.op \in {"PredictResolve", "PredictReject"})
          => (result' = Null /\ error' = "")]_vars

\* C20: every POST /predict carries a list of between MinSymptoms and
\* MaxSymptoms symptom identifiers, without duplicates, each an identifier of
\* the loaded catalog.
C20_PayloadWellFormed ==
    \A r \in inflight :
       LET ids == r.payload.symptoms
       IN  /\ Len(ids) >= MinSymptoms
           /\ Len(ids) <= MaxSymptoms
           /\ NoDuplicates(ids)
           /\ \A i \in 1..Len(ids) : Includes(allSymptoms, ids[i])

C20_Witness ==
    \E r \in inflight : Len(r.payload.symptoms) = MaxSymptoms

\* C21: in every reachable state loading is set if and only if a POST
\* /predict has been issued whose response, success or failure, onPredict
\* has not handled yet.
C21_LoadingIffInFlight == loading <=> inflight # {}

\* Clear clicked while a request that followed an earlier, handled one is in
\* flight: loading was set, cleared and set again, and the Clear leaves it set
C21_Witness ==
    /\ last.op = "clearAll"
    /\ loading
    /\ \E r \in inflight : r.id = sent /\ r.id > 1

====
